---------------------------- MODULE Spec2Model ----------------------------
(***************************************************************************)
(* A model of the sp500-updater backend (src/backend/main.py and           *)
(* src/backend/financials_provider.py):                                    *)
(*   - the snapshot file companies.json and the change log changes.log,    *)
(*   - POST /refresh (refresh_companies) as a sequence of steps that       *)
(*     several requests run concurrently (FastAPI runs a plain "def"       *)
(*     endpoint on a thread pool),                                         *)
(*   - GET /companies and GET /companies/{symbol} as readers,              *)
(*   - fetch_sp500_list's record builder, dedupe and sort,                 *)
(*   - log_changes' diff,                                                  *)
(*   - fetch_financials' per-symbol loop.                                  *)
(*                                                                         *)
(* Python values: every cell and field value of the roster is a string;    *)
(* None and pandas' NaN are the two reserved strings below.  The "ts"      *)
(* field of a change event (datetime.now()) is not modelled.               *)
(***************************************************************************)
EXTENDS Integers, Sequences, FiniteSets, TLC

---------------------------------------------------------------------------
(* Bounds of the model *)

\* how many distinct ticker symbols the source table may mention
NumSymbols == 2

\* how many data rows the source table may have
MaxRows == 2

\* how many POST /refresh requests are made (each may overlap the others)
NumRequests == 2

\* how many symbols a fetch_financials call is asked for
MaxFinSymbols == 2

---------------------------------------------------------------------------
(* Python values *)

None == "<None>"
NaN  == "<NaN>"

\* the strings of the model in Python's (code point) order, as sorted() and
\* list.sort() compare them; "" sorts before every other string
SymbolTable == <<"AAPL", "MSFT", "XYZ", "ZTS">>
\* the same symbols as a source cell may spell them
LowerTable  == <<"aapl", "msft", "xyz", "zts">>
PaddedTable == <<"  aapl  ", " msft", "xyz ", " zts ">>
Blank == "   "

Symbols == {SymbolTable[i] : i \in 1..NumSymbols}

StrRank(s) ==
  IF s = "" THEN 0 ELSE CHOOSE i \in 1..Len(SymbolTable) : SymbolTable[i] = s

\* str.strip()
Strip(s) ==
  IF \E i \in 1..Len(PaddedTable) : PaddedTable[i] = s
    THEN LowerTable[CHOOSE i \in 1..Len(PaddedTable) : PaddedTable[i] = s]
    ELSE IF s = Blank THEN ""
    ELSE IF s = " Technology " THEN "Technology"
    ELSE s

\* str.upper()
Upper(s) ==
  IF \E i \in 1..Len(LowerTable) : LowerTable[i] = s
    THEN SymbolTable[CHOOSE i \in 1..Len(LowerTable) : LowerTable[i] = s]
    ELSE s

\* Python truthiness of a str-or-None value: None and "" are falsy
Truthy(v) == v # None /\ v # ""

\* dict.get(f): None for a missing key
Get(d, f) == IF f \in DOMAIN d THEN d[f] ELSE None

\* sorted(S) of a set of strings
RECURSIVE Sorted(_)
Sorted(S) ==
  IF S = {} THEN <<>>
  ELSE LET m == CHOOSE x \in S : \A y \in S : StrRank(x) <= StrRank(y)
       IN  <<m>> \o Sorted(S \ {m})

Range(s) == {s[i] : i \in 1..Len(s)}

\* all sequences over S of length at most n
SeqsUpTo(S, n) == UNION {[1..k -> S] : k \in 0..n}

\* all orders in which a set can be iterated
Orders(S) == {s \in [1..Cardinality(S) -> S] : Range(s) = S}

---------------------------------------------------------------------------
(* fetch_sp500_list: canonical columns, record builder, dedupe, sort *)

Fields == {"symbol", "name", "sector", "sub_sector", "headquarters", "date_added"}

\* df.columns of the tables of the model: the source page's Symbol and
\* GICS Sector columns
Columns == {"Symbol", "GICS Sector"}

norm_col(c) ==
  CASE c = "Symbol" -> "symbol"
    [] c = "GICS Sector" -> "gics sector"
    [] OTHER -> c

col_map == [n \in {norm_col(c) : c \in Columns} |->
              CHOOSE c \in Columns : norm_col(c) = n]

want ==
  [symbol       |-> <<"symbol">>,
   name         |-> <<"security", "company", "name">>,
   sector       |-> <<"gics sector", "sector">>,
   sub_sector   |-> <<"gics sub-industry", "gics sub industry", "sub-industry", "sub industry">>,
   headquarters |-> <<"headquarters location", "headquarters">>,
   date_added   |-> <<"date first added", "date added">>]

\* next((col_map[c] for c in candidates if c in col_map), None)
chosen ==
  [f \in Fields |->
     LET hits == {i \in 1..Len(want[f]) : want[f][i] \in DOMAIN col_map}
     IN  IF hits = {} THEN None
         ELSE col_map[want[f][CHOOSE i \in hits : \A j \in hits : i <= j]]]

\* the cells a row of the source table may hold
SymbolCells == {NaN, Blank} \cup {SymbolTable[i] : i \in 1..NumSymbols}
                            \cup {PaddedTable[i] : i \in 1..NumSymbols}
SectorCells == {NaN, "Tech", " Technology "}

Rows == {[c \in Columns |-> IF c = "Symbol" THEN s ELSE t] :
           s \in SymbolCells, t \in SectorCells}

\* the tables pd.read_html may return as tables[0]: rows in page order
Tables == SeqsUpTo(Rows, MaxRows)

\* one iteration of "for _, row in df.iterrows()"
BuildRecord(row) ==
  [f \in Fields |->
     LET src  == chosen[f]
         val0 == IF src \in DOMAIN row THEN row[src] ELSE None
         val1 == IF val0 = NaN THEN None ELSE val0
         val2 == IF val1 # None THEN Strip(val1) ELSE val1
     IN  IF f = "symbol" /\ val2 # None THEN Upper(val2) ELSE val2]

BuildRecords(df) == [i \in 1..Len(df) |-> BuildRecord(df[i])]

\* a dedupe loop in which a later record of a symbol replaces the kept one
RECURSIVE DedupeLastWins(_, _, _, _)
DedupeLastWins(records, i, seen, uniq) ==
  IF i > Len(records) THEN uniq
  ELSE LET r == records[i]
           k == Get(r, "symbol")
       IN  IF ~Truthy(k) THEN DedupeLastWins(records, i + 1, seen, uniq)
           ELSE IF k \notin seen
             THEN DedupeLastWins(records, i + 1, seen \cup {k}, Append(uniq, r))
             ELSE DedupeLastWins(records, i + 1, seen,
                    [j \in 1..Len(uniq) |->
                       IF uniq[j]["symbol"] = k THEN r ELSE uniq[j]])

\* "for r in records: k = r.get('symbol'); if k and k not in seen: ..."
RECURSIVE DedupeLoop(_, _, _, _)
DedupeLoop(records, i, seen, uniq) ==
  IF i > Len(records) THEN uniq
  ELSE LET r == records[i]
           k == Get(r, "symbol")
       IN  IF Truthy(k) /\ k \notin seen
             THEN DedupeLoop(records, i + 1, seen \cup {k}, Append(uniq, r))
             ELSE DedupeLoop(records, i + 1, seen, uniq)

\* the mutant of Dedupe: last occurrence wins
DedupeKeepLast(records) == DedupeLastWins(records, 1, {}, <<>>)

Dedupe(records) == DedupeLoop(records, 1, {}, <<>>)

\* the sort key: r.get("symbol") or ""
SortKey(r) == IF Truthy(Get(r, "symbol")) THEN Get(r, "symbol") ELSE ""

\* list.sort(key=...): stable, ascending
RECURSIVE InsertSorted(_, _)
InsertSorted(s, r) ==
  IF s = <<>> THEN <<r>>
  ELSE IF StrRank(SortKey(s[Len(s)])) <= StrRank(SortKey(r)) THEN Append(s, r)
  ELSE Append(InsertSorted(SubSeq(s, 1, Len(s) - 1), r), s[Len(s)])

RECURSIVE SortBySymbol(_)
SortBySymbol(s) ==
  IF s = <<>> THEN <<>>
  ELSE InsertSorted(SortBySymbol(SubSeq(s, 1, Len(s) - 1)), s[Len(s)])

fetch_sp500_list(df) == SortBySymbol(Dedupe(BuildRecords(df)))

\* every record set a refresh can fetch
RecordSets == {fetch_sp500_list(df) : df \in Tables}

---------------------------------------------------------------------------
(* log_changes: the diff of two record lists *)

\* {r[key]: r for r in data if key in r}: a later record of a key replaces
\* an earlier one
KeyMap(data, key) ==
  LET idx == {i \in 1..Len(data) : key \in DOMAIN data[i]}
  IN  [k \in {data[i][key] : i \in idx} |->
         data[CHOOSE i \in idx : data[i][key] = k /\
                \A j \in idx : data[j][key] = k => j <= i]]

\* the mutant of Added: every key of the new list counts as added
AddedAllNew(old_keys, new_keys) == Sorted(new_keys)

\* added = sorted(new_keys - old_keys)
Added(old_keys, new_keys) == Sorted(new_keys \ old_keys)

\* removed = sorted(old_keys - new_keys)
Removed(old_keys, new_keys) == Sorted(old_keys \ new_keys)

\* the mutant of FieldChanges: every field of the two records is recorded
FieldChangesAll(o, n) ==
  [f \in DOMAIN o \cup DOMAIN n |-> [old |-> Get(o, f), new |-> Get(n, f)]]

\* changes = {f: {"old": o.get(f), "new": n.get(f)} for f in fields
\*            if o.get(f) != n.get(f)}
FieldChanges(o, n) ==
  LET fields == DOMAIN o \cup DOMAIN n
  IN  [f \in {g \in fields : Get(o, g) # Get(n, g)} |->
         [old |-> Get(o, f), new |-> Get(n, f)]]

\* the mutant of Updated: every key of both lists counts as updated
UpdatedAllCommon(old_map, new_map, iter) == iter

\* the loop "for k in (old_keys & new_keys): if o != n: updated.append(k)";
\* iter is the order in which Python iterates the intersection set
Updated(old_map, new_map, iter) ==
  SelectSeq(iter, LAMBDA k : old_map[k] # new_map[k])

\* the entry written to LOG_FILE (without its "ts")
ChangeEntry(old_data, new_data, key, iter) ==
  LET old_map == KeyMap(old_data, key)
      new_map == KeyMap(new_data, key)
      updated == Updated(old_map, new_map, iter)
  IN  [counts  |-> [old |-> Len(old_data), new |-> Len(new_data)],
       added   |-> Added(DOMAIN old_map, DOMAIN new_map),
       removed |-> Removed(DOMAIN old_map, DOMAIN new_map),
       updated |-> [i \in 1..Len(updated) |->
                      [symbol  |-> updated[i],
                       changes |-> FieldChanges(old_map[updated[i]],
                                                new_map[updated[i]])]]]

\* the summary log_changes returns
ChangeSummary(old_data, new_data, key, iter) ==
  LET old_map == KeyMap(old_data, key)
      new_map == KeyMap(new_data, key)
  IN  [added   |-> Added(DOMAIN old_map, DOMAIN new_map),
       removed |-> Removed(DOMAIN old_map, DOMAIN new_map),
       updated |-> Updated(old_map, new_map, iter)]

\* the orders in which "old_keys & new_keys" may be iterated
IterOrders(old_data, new_data, key) ==
  Orders(DOMAIN KeyMap(old_data, key) \cap DOMAIN KeyMap(new_data, key))

---------------------------------------------------------------------------
(* companies.json: the file as the chunks json.dump has written so far *)

\* a chunk of the file: one serialized record, the closing bracket that
\* completes the JSON document, or a hole left by a write past the end
RecCell(r) == [kind |-> "rec", rec |-> r]
EndCell    == [kind |-> "end"]
NulCell    == [kind |-> "nul"]

\* companies.json does not exist before the first save
NoFile == [exists |-> FALSE, cells |-> <<>>]

\* open(DATA_FILE, "w"): the file is created or truncated to nothing
Truncated == [exists |-> TRUE, cells |-> <<>>]

\* a write of chunk c at offset i of a file opened by this writer
WriteAt(file, i, c) ==
  [exists |-> TRUE,
   cells  |-> IF i <= Len(file.cells)
                THEN [file.cells EXCEPT ![i] = c]
                ELSE file.cells
                       \o [j \in 1..(i - Len(file.cells) - 1) |-> NulCell]
                       \o <<c>>]

\* json.load(f): the record list of a complete document, else JSONDecodeError
ParseFile(file) ==
  LET n == Len(file.cells)
  IN  IF n >= 1 /\ file.cells[n] = EndCell
         /\ \A i \in 1..(n - 1) : file.cells[i].kind = "rec"
        THEN [ok |-> TRUE, data |-> [i \in 1..(n - 1) |-> file.cells[i].rec]]
        ELSE [ok |-> FALSE, data |-> <<>>]

\* load_data(): [] when the file does not exist, else json.load
load_data(file) ==
  IF ~file.exists THEN [ok |-> TRUE, data |-> <<>>] ELSE ParseFile(file)

---------------------------------------------------------------------------
(* The state *)

VARIABLES
  dataFile,      \* companies.json
  logFile,       \* changes.log: the change events appended, in order
  pc,            \* where each POST /refresh request is in refresh_companies
  old_data,      \* refresh_companies' local old_data, per request
  new_data,      \* refresh_companies' local new_data, per request
  wpos,          \* how many chunks the request's json.dump has written
  response,      \* what the request returned to its caller
  lastRead,      \* what the latest GET /companies[/symbol] returned
  prevSnapshot,  \* history: the last record list companies.json held complete
  replaced,      \* history: the snapshot each request's save replaced
  df,            \* fetch_sp500_list alone: its table, ...
  records,       \* ... its candidate records, ...
  uniq,          \* ... its deduplicated list, ...
  fpc,           \* ... and where it is
  symbols,       \* fetch_financials: the symbols asked for, ...
  provider,      \* ... what Yahoo answers for each ticker, ...
  out,           \* ... the mapping built so far, ...
  fin_i,         \* ... how many symbols of the chunk are done, ...
  fin_pc         \* ... and where it is

refreshVars == <<dataFile, logFile, pc, old_data, new_data, wpos, response,
                 lastRead, prevSnapshot, replaced>>
fetchVars   == <<df, records, uniq, fpc>>
finVars     == <<symbols, provider, out, fin_i, fin_pc>>
vars        == <<refreshVars, fetchVars, finVars>>

Requests == 1..NumRequests

Pending == [status |-> "pending"]

\* raise HTTPException(status_code=500, detail=f"Refresh failed: {e}")
Failed(at) == [status |-> "500", detail |-> at]

\* {"status": "success", "count": len(new_data), **changes}
Success(new, changes) ==
  [status |-> "success", count |-> Len(new), added |-> changes.added,
   removed |-> changes.removed, updated |-> changes.updated]

\* the record list companies.json last held complete, after a step
LastComplete(file, prev) ==
  IF load_data(file).ok THEN load_data(file).data ELSE prev

FetchIdle == fpc = "off" /\ df = <<>> /\ records = <<>> /\ uniq = <<>>
FinIdle   == fin_pc = "off" /\ symbols = <<>> /\ provider = <<>>
             /\ out = <<>> /\ fin_i = 0

RefreshInit ==
  /\ dataFile = NoFile
  /\ logFile = <<>>
  /\ pc = [r \in Requests |-> "start"]
  /\ old_data = [r \in Requests |-> <<>>]
  /\ new_data = [r \in Requests |-> <<>>]
  /\ wpos = [r \in Requests |-> 0]
  /\ response = [r \in Requests |-> Pending]
  /\ lastRead = Pending
  /\ prevSnapshot = <<>>
  /\ replaced = [r \in Requests |-> <<>>]

Init == RefreshInit /\ FetchIdle /\ FinIdle

---------------------------------------------------------------------------
(* POST /refresh: refresh_companies, one action per step *)

\* the except clause: the request ends with a 500
Raise(r, at) ==
  /\ pc' = [pc EXCEPT ![r] = "done"]
  /\ response' = [response EXCEPT ![r] = Failed(at)]

\* old_data = load_data()
Load(r) ==
  /\ pc[r] = "start"
  /\ IF load_data(dataFile).ok
       THEN /\ old_data' = [old_data EXCEPT ![r] = load_data(dataFile).data]
            /\ pc' = [pc EXCEPT ![r] = "loaded"]
            /\ UNCHANGED response
       ELSE /\ Raise(r, "load")
            /\ UNCHANGED old_data
  /\ UNCHANGED <<dataFile, logFile, new_data, wpos, lastRead, prevSnapshot, replaced>>
  /\ UNCHANGED <<fetchVars, finVars>>

\* new_data = fetch_sp500_list(), or the HTTPException of a failed fetch
Fetch(r) ==
  /\ pc[r] = "loaded"
  /\ \/ \E fetched \in RecordSets :
          /\ new_data' = [new_data EXCEPT ![r] = fetched]
          /\ pc' = [pc EXCEPT ![r] = "fetched"]
          /\ UNCHANGED response
     \/ /\ Raise(r, "fetch")
        /\ UNCHANGED new_data
  /\ UNCHANGED <<dataFile, logFile, old_data, wpos, lastRead, prevSnapshot, replaced>>
  /\ UNCHANGED <<fetchVars, finVars>>

\* save_companies: open(DATA_FILE, "w")
SaveOpen(r) ==
  /\ pc[r] = "fetched"
  /\ \/ /\ dataFile' = Truncated
        /\ wpos' = [wpos EXCEPT ![r] = 0]
        /\ pc' = [pc EXCEPT ![r] = "writing"]
        /\ prevSnapshot' = LastComplete(dataFile', prevSnapshot)
        /\ replaced' = [replaced EXCEPT ![r] = prevSnapshot]
        /\ UNCHANGED response
     \/ /\ Raise(r, "save")
        /\ UNCHANGED <<dataFile, wpos, prevSnapshot, replaced>>
  /\ UNCHANGED <<logFile, old_data, new_data, lastRead>>
  /\ UNCHANGED <<fetchVars, finVars>>

\* save_companies: json.dump writes the next record, or raises
SaveWrite(r) ==
  /\ pc[r] = "writing"
  /\ wpos[r] < Len(new_data[r])
  /\ \/ /\ dataFile' = WriteAt(dataFile, wpos[r] + 1,
                               RecCell(new_data[r][wpos[r] + 1]))
        /\ wpos' = [wpos EXCEPT ![r] = wpos[r] + 1]
        /\ prevSnapshot' = LastComplete(dataFile', prevSnapshot)
        /\ UNCHANGED <<pc, response>>
     \/ /\ Raise(r, "save")
        /\ UNCHANGED <<dataFile, wpos, prevSnapshot>>
  /\ UNCHANGED <<logFile, old_data, new_data, lastRead, replaced>>
  /\ UNCHANGED <<fetchVars, finVars>>

\* save_companies: json.dump writes the end of the document, the file closes
SaveClose(r) ==
  /\ pc[r] = "writing"
  /\ wpos[r] = Len(new_data[r])
  /\ \/ /\ dataFile' = WriteAt(dataFile, wpos[r] + 1, EndCell)
        /\ wpos' = [wpos EXCEPT ![r] = wpos[r] + 1]
        /\ pc' = [pc EXCEPT ![r] = "saved"]
        /\ prevSnapshot' = LastComplete(dataFile', prevSnapshot)
        /\ UNCHANGED response
     \/ /\ Raise(r, "save")
        /\ UNCHANGED <<dataFile, wpos, prevSnapshot>>
  /\ UNCHANGED <<logFile, old_data, new_data, lastRead, replaced>>
  /\ UNCHANGED <<fetchVars, finVars>>

\* changes = log_changes(old_data, new_data, key="symbol"); return {...}
LogChanges(r) ==
  /\ pc[r] = "saved"
  /\ \/ \E iter \in IterOrders(old_data[r], new_data[r], "symbol") :
          /\ logFile' = Append(logFile,
                          ChangeEntry(old_data[r], new_data[r], "symbol", iter))
          /\ pc' = [pc EXCEPT ![r] = "done"]
          /\ response' = [response EXCEPT ![r] =
                            Success(new_data[r],
                              ChangeSummary(old_data[r], new_data[r], "symbol", iter))]
     \/ /\ Raise(r, "log")
        /\ UNCHANGED logFile
  /\ UNCHANGED <<dataFile, old_data, new_data, wpos, lastRead, prevSnapshot, replaced>>
  /\ UNCHANGED <<fetchVars, finVars>>

---------------------------------------------------------------------------
(* The readers *)

\* what GET /companies answers when load_data() gave `loaded`
companies_response(loaded) ==
  IF ~loaded.ok THEN [path |-> "/companies", status |-> "500", body |-> <<>>]
  ELSE [path |-> "/companies", status |-> "200", body |-> loaded.data]

\* what GET /companies/{symbol} answers when load_data() gave `loaded`:
\* the first c with c.get("symbol", "").upper() == symbol.upper(), else 404
company_response(loaded, symbol) ==
  LET hits == {i \in 1..Len(loaded.data) :
                 Upper(IF "symbol" \in DOMAIN loaded.data[i]
                         THEN loaded.data[i]["symbol"] ELSE "") = Upper(symbol)}
  IN  IF ~loaded.ok THEN [path |-> symbol, status |-> "500", body |-> <<>>]
      ELSE IF hits = {} THEN [path |-> symbol, status |-> "404", body |-> <<>>]
      ELSE [path |-> symbol, status |-> "200",
            body |-> <<loaded.data[CHOOSE i \in hits : \A j \in hits : i <= j]>>]

\* GET /companies
get_companies ==
  /\ lastRead' = companies_response(load_data(dataFile))
  /\ UNCHANGED <<dataFile, logFile, pc, old_data, new_data, wpos, response,
                 prevSnapshot, replaced>>
  /\ UNCHANGED <<fetchVars, finVars>>

\* GET /companies/{symbol}
get_company(symbol) ==
  /\ lastRead' = company_response(load_data(dataFile), symbol)
  /\ UNCHANGED <<dataFile, logFile, pc, old_data, new_data, wpos, response,
                 prevSnapshot, replaced>>
  /\ UNCHANGED <<fetchVars, finVars>>

Next ==
  \/ \E r \in Requests : Load(r)
  \/ \E r \in Requests : Fetch(r)
  \/ \E r \in Requests : SaveOpen(r)
  \/ \E r \in Requests : SaveWrite(r)
  \/ \E r \in Requests : SaveClose(r)
  \/ \E r \in Requests : LogChanges(r)
  \/ get_companies
  \/ \E i \in 1..NumSymbols : get_company(LowerTable[i])

Spec == Init /\ [][Next]_vars

---------------------------------------------------------------------------
(* log_changes alone: a request that has saved and calls                   *)
(* log_changes(old_data, new_data) for any two record sets                 *)

\* companies.json after a complete save of data
FileOf(data) ==
  [exists |-> TRUE,
   cells  |-> [i \in 1..(Len(data) + 1) |->
                 IF i <= Len(data) THEN RecCell(data[i]) ELSE EndCell]]

InitDiff ==
  /\ \E old \in RecordSets, new \in RecordSets :
       /\ old_data = [r \in Requests |-> IF r = 1 THEN old ELSE <<>>]
       /\ new_data = [r \in Requests |-> IF r = 1 THEN new ELSE <<>>]
       /\ dataFile = FileOf(new)
       /\ prevSnapshot = new
       /\ replaced = [r \in Requests |-> IF r = 1 THEN old ELSE <<>>]
       /\ wpos = [r \in Requests |-> IF r = 1 THEN Len(new) + 1 ELSE 0]
  /\ logFile = <<>>
  /\ pc = [r \in Requests |-> IF r = 1 THEN "saved" ELSE "start"]
  /\ response = [r \in Requests |-> Pending]
  /\ lastRead = Pending
  /\ FetchIdle /\ FinIdle

NextDiff == \E r \in Requests : LogChanges(r)

SpecDiff == InitDiff /\ [][NextDiff]_vars

---------------------------------------------------------------------------
(* fetch_sp500_list alone, on any table: build, dedupe, sort *)

InitFetch ==
  /\ df \in Tables
  /\ records = <<>>
  /\ uniq = <<>>
  /\ fpc = "build"
  /\ RefreshInit /\ FinIdle

\* for _, row in df.iterrows(): ... records.append(rec)
BuildStep ==
  /\ fpc = "build"
  /\ records' = BuildRecords(df)
  /\ fpc' = "dedupe"
  /\ UNCHANGED <<df, uniq>>
  /\ UNCHANGED <<refreshVars, finVars>>

\* the dedupe loop
DedupeStep ==
  /\ fpc = "dedupe"
  /\ uniq' = Dedupe(records)
  /\ fpc' = "sort"
  /\ UNCHANGED <<df, records>>
  /\ UNCHANGED <<refreshVars, finVars>>

\* uniq.sort(key=...); return uniq
SortStep ==
  /\ fpc = "sort"
  /\ uniq' = SortBySymbol(uniq)
  /\ fpc' = "return"
  /\ UNCHANGED <<df, records>>
  /\ UNCHANGED <<refreshVars, finVars>>

NextFetch ==
  \/ BuildStep
  \/ DedupeStep
  \/ SortStep

SpecFetch == InitFetch /\ [][NextFetch]_vars

---------------------------------------------------------------------------
(* fetch_financials (financials_provider.py) *)

\* a Python number-or-None: <<>> is None, <<v>> the number v
NoNumber == <<>>
Number(v) == <<v>>

\* Python's "a or b" on such values: None and 0 are falsy
OrElse(a, b) == IF a # NoNumber /\ a # Number(0) THEN a ELSE b

CHUNK == 50

\* what out[sym] = None stores
NoRecord == [none |-> TRUE]

\* What Yahoo answers for one ticker during a call: the access raises, or
\* fast_info (None when the ticker has none) and info carry these values.
\* The seven other fields of rec copy info values and are left out.
FastInfos == {[present |-> FALSE, last_price |-> NoNumber, market_cap |-> NoNumber],
              [present |-> TRUE,  last_price |-> NoNumber, market_cap |-> NoNumber],
              [present |-> TRUE,  last_price |-> Number(0), market_cap |-> NoNumber],
              [present |-> TRUE,  last_price |-> Number(150), market_cap |-> Number(3000)]}
Infos == {[currentPrice |-> NoNumber, marketCap |-> NoNumber],
          [currentPrice |-> Number(150), marketCap |-> NoNumber],
          [currentPrice |-> NoNumber, marketCap |-> Number(3000)]}

FinAnswers ==
  {[raises |-> TRUE, fi |-> CHOOSE f \in FastInfos : ~f.present,
    info |-> CHOOSE i \in Infos : i.currentPrice = NoNumber /\ i.marketCap = NoNumber]}
  \cup {[raises |-> FALSE, fi |-> f, info |-> i] : f \in FastInfos, i \in Infos}

\* the spellings a caller may pass for the symbols of the model
FinSpellings == {SymbolTable[i] : i \in 1..NumSymbols}
                  \cup {LowerTable[i] : i \in 1..NumSymbols}

\* rec["price"] and rec["market_cap"]
FinRec(a) ==
  [price      |-> OrElse(IF a.fi.present THEN a.fi.last_price ELSE NoNumber,
                         a.info.currentPrice),
   market_cap |-> OrElse(IF a.fi.present THEN a.fi.market_cap ELSE NoNumber,
                         a.info.marketCap)]

\* the mutant of FinEntry: a record is stored unless the price is missing
FinEntryPriceOnly(a) ==
  IF a.raises THEN NoRecord
  ELSE IF FinRec(a).price = NoNumber THEN NoRecord
  ELSE FinRec(a)

\* the body of "for sym in chunk": the try block and its except
FinEntry(a) ==
  IF a.raises THEN NoRecord
  ELSE IF FinRec(a).price = NoNumber /\ FinRec(a).market_cap = NoNumber
    THEN NoRecord
  ELSE FinRec(a)

\* chunk = [s.upper() for s in symbols[i:i + CHUNK]], i the chunk's start
FinChunk(syms, i) ==
  [j \in 1..(IF Len(syms) - i < CHUNK THEN Len(syms) - i ELSE CHUNK) |->
     Upper(syms[i + j])]

InitFin ==
  /\ symbols \in SeqsUpTo(FinSpellings, MaxFinSymbols)
  /\ provider \in [{Upper(symbols[i]) : i \in 1..Len(symbols)} -> FinAnswers]
  /\ out = <<>>
  /\ fin_i = 0
  /\ fin_pc = "call"
  /\ RefreshInit /\ FetchIdle

\* out = {}; if not symbols: return out
FinStart ==
  /\ fin_pc = "call"
  /\ fin_pc' = IF symbols = <<>> THEN "returned" ELSE "loop"
  /\ UNCHANGED <<symbols, provider, out, fin_i>>
  /\ UNCHANGED <<refreshVars, fetchVars>>

\* one iteration of "for sym in chunk" (of the chunk fin_i falls in)
FinSymbol ==
  /\ fin_pc = "loop"
  /\ fin_i < Len(symbols)
  /\ LET start == (fin_i \div CHUNK) * CHUNK
         sym   == FinChunk(symbols, start)[fin_i - start + 1]
     IN  out' = [k \in DOMAIN out \cup {sym} |->
                   IF k = sym THEN FinEntry(provider[sym]) ELSE out[k]]
  /\ fin_i' = fin_i + 1
  /\ UNCHANGED <<symbols, provider, fin_pc>>
  /\ UNCHANGED <<refreshVars, fetchVars>>

\* return out
FinReturn ==
  /\ fin_pc = "loop"
  /\ fin_i = Len(symbols)
  /\ fin_pc' = "returned"
  /\ UNCHANGED <<symbols, provider, out, fin_i>>
  /\ UNCHANGED <<refreshVars, fetchVars>>

NextFin ==
  \/ FinStart
  \/ FinSymbol
  \/ FinReturn

SpecFin == InitFin /\ [][NextFin]_vars

---------------------------------------------------------------------------
(* Claims about a refresh run and its readers, under Spec *)

\* C1: a refresh whose source table yields no usable row (new_data is empty)
\* fails, and neither saves companies.json nor appends to changes.log: such
\* a request is never inside save_companies or past it, and never succeeds.
C1_EmptySourceAborts ==
  \A r \in Requests :
    (pc[r] \in {"writing", "saved"}
       \/ (pc[r] = "done" /\ response[r].status = "success"))
      => new_data[r] # <<>>

\* C2: at most one refresh is between its load of the previous snapshot and
\* its append of the change event at any time.
InSequence(r) == pc[r] \in {"loaded", "fetched", "writing", "saved"}

C2_OneRunAtATime == Cardinality({r \in Requests : InSequence(r)}) <= 1

\* the record lists a reader may observe while saves are under way: the last
\* complete snapshot, or the list a save in progress is writing
Observable ==
  {prevSnapshot} \cup {new_data[r] : r \in {q \in Requests : pc[q] = "writing"}}

\* C3: every load made by GET /companies or GET /companies/{symbol} sees the
\* complete previous record list or the complete new one: the answer is the
\* one computed from one of those lists, never from an empty or cut-off file.
C3_ReadersSeeOldOrNew ==
  [][lastRead' # lastRead =>
       \E d \in Observable :
         lastRead' = IF lastRead'.path = "/companies"
                       THEN companies_response([ok |-> TRUE, data |-> d])
                       ELSE company_response([ok |-> TRUE, data |-> d],
                                             lastRead'.path)]_vars

\* C4: when the log append fails after the save (the request leaves "saved"
\* with changes.log as it was), the request still answers success and
\* companies.json keeps the snapshot just saved.
C4_LogFailureStillSuccess ==
  [][\A r \in Requests :
       (pc[r] = "saved" /\ pc'[r] = "done" /\ logFile' = logFile)
         => (response'[r].status = "success" /\ dataFile' = dataFile)]_vars

\* C5: when save_companies fails (the request leaves the save with an
\* error), the request fails and companies.json still loads as the complete
\* record list it held before.
C5_FailedSaveKeepsPrior ==
  [][\A r \in Requests :
       (pc[r] \in {"fetched", "writing"} /\ pc'[r] = "done")
         => (response'[r].status = "500"
             /\ load_data(dataFile') = [ok |-> TRUE, data |-> prevSnapshot])]_vars

---------------------------------------------------------------------------
(* Claims about log_changes, under SpecDiff *)

SymbolsOf(data) == {data[i]["symbol"] : i \in 1..Len(data)}

RecOf(data, k) == data[CHOOSE i \in 1..Len(data) : data[i]["symbol"] = k]

NoDuplicates(s) == Cardinality(Range(s)) = Len(s)

\* the request has returned from log_changes
Logged(r) == pc[r] = "done" /\ response[r].status = "success"

LastEntry == logFile[Len(logFile)]

UpdatedSymbols(e) == {e.updated[i].symbol : i \in 1..Len(e.updated)}

\* C6: for record sets with unique symbols, added, removed and updated are
\* pairwise disjoint and every symbol of either set is in exactly one of
\* added (only in new), removed (only in old), updated (in both, records
\* differ), unchanged (in both, records equal).
C6_DiffPartitions ==
  \A r \in Requests :
    Logged(r) =>
      LET e    == LastEntry
          A    == Range(e.added)
          R    == Range(e.removed)
          U    == UpdatedSymbols(e)
          oldK == SymbolsOf(old_data[r])
          newK == SymbolsOf(new_data[r])
          Same == {k \in oldK \cap newK :
                     RecOf(old_data[r], k) = RecOf(new_data[r], k)}
      IN  /\ A \cap R = {} /\ A \cap U = {} /\ R \cap U = {}
          /\ A = newK \ oldK
          /\ R = oldK \ newK
          /\ U = (oldK \cap newK) \ Same
          /\ \A k \in oldK \cup newK :
               Cardinality({S \in {A, R, U, Same} : k \in S}) = 1
          /\ NoDuplicates(e.added) /\ NoDuplicates(e.removed)
          /\ Len(e.updated) = Cardinality(U)
          /\ response[r].added = e.added
          /\ response[r].removed = e.removed
          /\ Range(response[r].updated) = U

\* a diff with an added or removed symbol next to an updated one
C6_Witness ==
  /\ Logged(1)
  /\ LastEntry.updated # <<>>
  /\ LastEntry.removed # <<>>

\* C7: every entry of a change event's updated list has a non-empty changes
\* mapping holding exactly the fields whose old and new value differ, each
\* with the two records' values.
C7_ChangesAreRealDiffs ==
  \A r \in Requests :
    Logged(r) =>
      \A i \in 1..Len(LastEntry.updated) :
        LET u == LastEntry.updated[i]
            o == RecOf(old_data[r], u.symbol)
            n == RecOf(new_data[r], u.symbol)
        IN  /\ DOMAIN u.changes # {}
            /\ DOMAIN u.changes \subseteq DOMAIN o \cup DOMAIN n
            /\ \A f \in DOMAIN o \cup DOMAIN n :
                 f \in DOMAIN u.changes <=> Get(o, f) # Get(n, f)
            /\ \A f \in DOMAIN u.changes :
                 /\ u.changes[f].old = Get(o, f)
                 /\ u.changes[f].new = Get(n, f)
                 /\ u.changes[f].old # u.changes[f].new

\* an updated entry whose sector went from a value to null
C7_Witness ==
  /\ Logged(1)
  /\ \E i \in 1..Len(LastEntry.updated) :
       /\ "sector" \in DOMAIN LastEntry.updated[i].changes
       /\ LastEntry.updated[i].changes["sector"].new = None

\* C8: log_changes(S, S) returns empty added, removed and updated, and
\* appends exactly one change event, whose counts.old equals counts.new.
C8_SelfDiffIsEmpty ==
  \A r \in Requests :
    (Logged(r) /\ old_data[r] = new_data[r]) =>
      /\ response[r].added = <<>>
      /\ response[r].removed = <<>>
      /\ response[r].updated = <<>>
      /\ Len(logFile) = 1
      /\ LastEntry.added = <<>>
      /\ LastEntry.removed = <<>>
      /\ LastEntry.updated = <<>>
      /\ LastEntry.counts.old = LastEntry.counts.new
      /\ LastEntry.counts.new = Len(new_data[r])

\* a record set of two records diffed against itself
C8_Witness ==
  /\ Logged(1)
  /\ old_data[1] = new_data[1]
  /\ Len(new_data[1]) = 2

---------------------------------------------------------------------------
(* Claims about the dedupe step, under SpecFetch *)

RecordSymbols == {Get(records[i], "symbol") : i \in 1..Len(records)}

FirstWith(k) ==
  records[CHOOSE i \in 1..Len(records) :
            /\ Get(records[i], "symbol") = k
            /\ \A j \in 1..(i - 1) : Get(records[j], "symbol") # k]

KeptFor(k) == {j \in 1..Len(uniq) : Get(uniq[j], "symbol") = k}

Deduped == fpc \in {"sort", "return"}

\* C9 as claimed: one record is kept for every non-null symbol, the first in
\* input order; only records with a null symbol are dropped.
C9_FirstWinsPerNonNullSymbol ==
  Deduped =>
    /\ \A k \in RecordSymbols \ {None} :
         /\ Cardinality(KeptFor(k)) = 1
         /\ \A j \in KeptFor(k) : uniq[j] = FirstWith(k)
    /\ KeptFor(None) = {}

\* C9 as amended: one record is kept for every symbol that is neither null
\* nor the empty string, the first in input order; later records of the
\* symbol never replace it; records whose symbol is null or empty are dropped.
C9_FirstWinsPerTruthySymbol ==
  Deduped =>
    /\ \A k \in {s \in RecordSymbols : Truthy(s)} :
         /\ Cardinality(KeptFor(k)) = 1
         /\ \A j \in KeptFor(k) : uniq[j] = FirstWith(k)
    /\ KeptFor(None) = {} /\ KeptFor("") = {}
    /\ Len(uniq) = Cardinality({s \in RecordSymbols : Truthy(s)})

\* two rows of one symbol with different sectors have been deduplicated
C9_Witness ==
  /\ fpc = "return"
  /\ Len(records) = 2
  /\ Truthy(records[1]["symbol"])
  /\ records[1]["symbol"] = records[2]["symbol"]
  /\ records[1] # records[2]
  /\ uniq = <<records[1]>>

---------------------------------------------------------------------------
(* Claims about fetch_financials, under SpecFin *)

\* the answer for a ticker carries neither a price nor a market capitalization
\* (fast_info's 0 counts as no value, as the code's "or" treats it)
BothMissing(a) ==
  /\ (~a.fi.present \/ a.fi.last_price \in {NoNumber, Number(0)})
  /\ a.info.currentPrice = NoNumber
  /\ (~a.fi.present \/ a.fi.market_cap \in {NoNumber, Number(0)})
  /\ a.info.marketCap = NoNumber

\* C10: the mapping fetch_financials returns has an entry for every requested
\* symbol, upper-cased; a symbol whose fetch raised or whose price and market
\* capitalization are both missing maps to None, every other symbol to its
\* record, whatever happened to the other symbols.
C10_EverySymbolGetsItsOutcome ==
  fin_pc = "returned" =>
    /\ DOMAIN out = {Upper(symbols[i]) : i \in 1..Len(symbols)}
    /\ \A k \in DOMAIN out :
         IF provider[k].raises \/ BothMissing(provider[k])
           THEN out[k] = NoRecord
           ELSE /\ out[k] # NoRecord
                /\ out[k].price \in {provider[k].fi.last_price,
                                     provider[k].info.currentPrice}
                /\ out[k].market_cap \in {provider[k].fi.market_cap,
                                          provider[k].info.marketCap}
                /\ (out[k].price # NoNumber \/ out[k].market_cap # NoNumber)

\* a batch in which one symbol's fetch raised and another, lower-case one
\* got its record
C10_Witness ==
  /\ fin_pc = "returned"
  /\ \E k \in DOMAIN out, m \in DOMAIN out :
       /\ provider[k].raises /\ out[k] = NoRecord
       /\ out[m] # NoRecord
       /\ m \notin Range(symbols)

---------------------------------------------------------------------------
(* Claims about overlapping refresh runs, under Spec *)

\* C11: every change event in the log was computed against the snapshot its
\* own save replaced: a request that has appended its event diffed against
\* (old_data) the record list companies.json held just before its save.
C11_EventDiffsReplacedSnapshot ==
  \A r \in Requests : Logged(r) => old_data[r] = replaced[r]

=============================================================================
